---- MODULE Spec2Model ----
(***************************************************************************)
(* A model of the Liquid template kernel of Jeqyll:                        *)
(*   - Liquid::Context, the variant runtime value (context.hpp);           *)
(*   - Liquid::BlockBody::parse, the tag dispatch loop (blockbody.cpp);    *)
(*   - Liquid::Condition, the logical chain of the if tag (tags/if.hpp).   *)
(* Three specifications share the variables: SpecCtx drives Context        *)
(* objects, SpecParse drives one parse of a template, SpecCond builds and  *)
(* evaluates one condition chain.                                          *)
(***************************************************************************)
EXTENDS Integers, Sequences, FiniteSets, TLC

VARIABLES
    ctx,       \* SpecCtx: the Context object the host builds and reads
    out,       \* SpecCtx: the last read made of a Context (a const method's result)
    tokens,    \* SpecParse: the Components the Tokenizer will produce, in order
    pos,       \* SpecParse: the Tokenizer's cursor (components already pulled)
    stack,     \* SpecParse: the active BlockBody::parse calls, outermost first
    pc,        \* SpecParse: "run", "done" or "faulted"
    fault,     \* SpecParse: the exception thrown, or NoFault
    calls,     \* SpecParse: every unknown-tag handler invocation so far
    returned,  \* SpecParse: every BlockBody::parse call that returned normally
    chainSrc,  \* SpecCond: the comparisons and logical operators as written
    cond,      \* SpecCond: the parsed Condition chain (<<>> before parsing)
    condCtx,   \* SpecCond: the Context the condition is evaluated against
    condOut    \* SpecCond: the result of Condition::evaluate (<<>> before)

vars == <<ctx, out, tokens, pos, stack, pc, fault, calls, returned,
          chainSrc, cond, condCtx, condOut>>
ctxVars == <<ctx, out>>
parseVars == <<tokens, pos, stack, pc, fault, calls, returned>>
condVars == <<chainSrc, cond, condCtx, condOut>>

(***************************************************************************)
(* Bounds of the model.                                                    *)
(***************************************************************************)
\* Number of Contexts stored inside the Context object, at any depth.
MaxSize == 1
\* Number of Components of a template.
MaxComps == 3
\* Number of comparisons of a condition chain.
MaxChain == 3

(***************************************************************************)
(* Liquid::Context.  A Context object is its five members; the variant is  *)
(* type, the other members are storage that only the matching variant      *)
(* reads.  hash is a QHash, modelled as a set of <<key, value>> pairs with *)
(* unique keys; array is a QList, a sequence.  number_ is one storage for  *)
(* NumberInt and NumberFloat; floats are modelled by their integral value. *)
(***************************************************************************)
Types == {"Hash", "Array", "String", "NumberInt", "NumberFloat",
          "BooleanTrue", "BooleanFalse", "Nil"}
Keys == {"a", "b"}
Strings == {"", "s"}
Nums == {0, 1}

MkCtx(t, h, a, s, n) == [type |-> t, hash |-> h, array |-> a, string |-> s, num |-> n]

\* Context() and Context(nullptr).  number_ is left uninitialised here and in
\* every constructor of a non-number; no method reads it before operator=
\* of a number has written it, so one value stands for it.
NilCtx == MkCtx("Nil", {}, <<>>, "", 0)
\* Context(Type): only type_ is set; for a number type number_ is read
\* uninitialised later, so n is any value.
CtxOfType(t, n) == MkCtx(t, {}, <<>>, "", n)
CtxOfHash(h) == MkCtx("Hash", h, <<>>, "", 0)
CtxOfArray(a) == MkCtx("Array", {}, a, "", 0)
CtxOfString(s) == MkCtx("String", {}, <<>>, s, 0)
CtxOfInt(v) == MkCtx("NumberInt", {}, <<>>, "", v)
CtxOfFloat(v) == MkCtx("NumberFloat", {}, <<>>, "", v)
CtxOfBool(b) == MkCtx(IF b THEN "BooleanTrue" ELSE "BooleanFalse", {}, <<>>, "", 0)
kNilContext == NilCtx

\* Context(const Context&): the member of the source's variant is copied,
\* the others are default-constructed.
CopyCtor(c) ==
    CASE c.type = "Hash" -> MkCtx(c.type, c.hash, <<>>, "", 0)
      [] c.type = "Array" -> MkCtx(c.type, {}, c.array, "", 0)
      [] c.type = "String" -> MkCtx(c.type, {}, <<>>, c.string, 0)
      [] c.type \in {"NumberInt", "NumberFloat"} -> MkCtx(c.type, {}, <<>>, "", c.num)
      [] OTHER -> MkCtx(c.type, {}, <<>>, "", 0)

\* operator=: type_ and the member of the new variant are overwritten; the
\* other members keep what they held.
OpAssign(self, c) ==
    CASE c.type = "Hash" -> [self EXCEPT !.type = c.type, !.hash = c.hash]
      [] c.type = "Array" -> [self EXCEPT !.type = c.type, !.array = c.array]
      [] c.type = "String" -> [self EXCEPT !.type = c.type, !.string = c.string]
      [] c.type \in {"NumberInt", "NumberFloat"} ->
            [self EXCEPT !.type = c.type, !.num = c.num]
      [] OTHER -> [self EXCEPT !.type = c.type]

isHash(c) == c.type = "Hash"
isArray(c) == c.type = "Array"
isNil(c) == c.type = "Nil"

HashKeys(h) == {p[1] : p \in h}
HashFind(h, k) == {p[2] : p \in {q \in h : q[1] = k}}
HashValue(h, k) == CHOOSE v \in HashFind(h, k) : TRUE

\* operator==, with QHash's and QList's operator== over their elements.
RECURSIVE CtxEq(_, _)
CtxEqNoTypeCheck(x, y) ==
    CASE x.type = "Hash" ->
            /\ HashKeys(x.hash) = HashKeys(y.hash)
            /\ \A k \in HashKeys(x.hash) :
                   CtxEq(HashValue(x.hash, k), HashValue(y.hash, k))
      [] x.type = "Array" ->
            /\ Len(x.array) = Len(y.array)
            /\ \A i \in 1..Len(x.array) : CtxEq(x.array[i], y.array[i])
      [] x.type = "String" -> x.string = y.string
      [] x.type \in {"NumberInt", "NumberFloat"} -> x.num = y.num
      [] OTHER -> TRUE
CtxEq(x, y) ==
    IF x.type # y.type THEN FALSE
    ELSE CASE x.type = "Hash" ->
                 /\ HashKeys(x.hash) = HashKeys(y.hash)
                 /\ \A k \in HashKeys(x.hash) :
                        CtxEq(HashValue(x.hash, k), HashValue(y.hash, k))
           [] x.type = "Array" ->
                 /\ Len(x.array) = Len(y.array)
                 /\ \A i \in 1..Len(x.array) : CtxEq(x.array[i], y.array[i])
           [] x.type = "String" -> x.string = y.string
           [] x.type \in {"NumberInt", "NumberFloat"} -> x.num = y.num
           [] OTHER -> TRUE

\* QString::number of an int, and of a double with an integral value.
NumberText(n) == ToString(n)

toString(c) ==
    CASE c.type = "BooleanTrue" -> "true"
      [] c.type = "BooleanFalse" -> "false"
      [] c.type = "NumberInt" -> NumberText(c.num)
      [] c.type = "NumberFloat" -> NumberText(c.num)
      [] OTHER -> c.string

isTruthy(c) == c.type \notin {"Nil", "BooleanFalse"}

\* push_back: a no-op unless the Context is an Array; QList copy-constructs
\* the element it stores.
push_back(c, v) ==
    IF isArray(c) THEN [c EXCEPT !.array = Append(@, CopyCtor(v))] ELSE c

\* insert: QHash::insert on hash_, whatever the variant.  A new key stores a
\* copy-constructed value; an existing key's value is assigned with operator=.
insert(c, key, v) ==
    IF HashFind(c.hash, key) = {}
    THEN [c EXCEPT !.hash = @ \cup {<<key, CopyCtor(v)>>}]
    ELSE [c EXCEPT !.hash = {p \in @ : p[1] # key}
                            \cup {<<key, OpAssign(HashValue(c.hash, key), v)>>}]

\* operator[]: hash_.find, whatever the variant.
Index(c, key) ==
    IF HashFind(c.hash, key) = {} THEN kNilContext ELSE HashValue(c.hash, key)

\* Number of Contexts a Context object stores at any depth, members of
\* other variants included.
RECURSIVE Size(_)
RECURSIVE SumSizes(_)
SumSizes(S) ==
    IF S = {} THEN 0
    ELSE LET e == CHOOSE e \in S : TRUE IN 1 + Size(e[2]) + SumSizes(S \ {e})
Size(c) == SumSizes(c.hash) + SumSizes({<<i, c.array[i]>> : i \in 1..Len(c.array)})

(***************************************************************************)
(* Liquid::Expression, as Context::evaluate reads it: type(), lookupKey()  *)
(* and lookups().                                                          *)
(***************************************************************************)
LookupKeyExpr(k) == [type |-> "LookupKey", key |-> k, lookups |-> <<>>]
LookupExpr(ls) == [type |-> "Lookup", key |-> "", lookups |-> ls]
LiteralExpr == [type |-> "Literal", key |-> "", lookups |-> <<>>]

EvalOk(v) == [fault |-> FALSE, value |-> v]
EvalThrow == [fault |-> TRUE, value |-> kNilContext]

\* evaluate: [fault, value]; fault is the QString thrown for an expression
\* that is neither a LookupKey nor a Lookup.
RECURSIVE Evaluate(_, _)
RECURSIVE EvalLookups(_, _, _)
EvalLookups(c, ls, i) ==
    IF i > Len(ls) THEN EvalOk(c)
    ELSE LET r == Evaluate(c, ls[i]) IN
         IF r.fault THEN r
         ELSE IF isNil(r.value) THEN r
         ELSE EvalLookups(r.value, ls, i + 1)
EvaluateNoHashCheck(c, e) ==
    IF e.type = "LookupKey"
    THEN IF HashFind(c.hash, e.key) # {}
         THEN EvalOk(HashValue(c.hash, e.key))
         ELSE EvalOk(kNilContext)
    ELSE IF e.type = "Lookup" THEN EvalLookups(c, e.lookups, 1)
    ELSE EvalThrow
Evaluate(c, e) ==
    IF e.type = "LookupKey"
    THEN IF isHash(c) /\ HashFind(c.hash, e.key) # {}
         THEN EvalOk(HashValue(c.hash, e.key))
         ELSE EvalOk(kNilContext)
    ELSE IF e.type = "Lookup" THEN EvalLookups(c, e.lookups, 1)
    ELSE EvalThrow

(***************************************************************************)
(* SpecCtx: the host constructs, copies, assigns, fills and reads one      *)
(* Context object.  The operand of an assignment, insert or push_back is a *)
(* freshly constructed value or the object itself.                         *)
(***************************************************************************)
NoOut == [op |-> "none"]

\* What the value constructors build from the host's primitives.
Fresh ==
    {NilCtx, CtxOfHash({}), CtxOfArray(<<>>), CtxOfBool(TRUE), CtxOfBool(FALSE)}
    \cup {CtxOfString(s) : s \in Strings}
    \cup {CtxOfInt(v) : v \in Nums}
    \cup {CtxOfFloat(v) : v \in Nums}
    \cup {CtxOfType(t, 0) : t \in Types \ {"NumberInt", "NumberFloat"}}
    \cup {CtxOfType(t, n) : t \in {"NumberInt", "NumberFloat"}, n \in Nums}

Operands == Fresh \cup {ctx}

\* The expressions the host evaluates: a key, a path of one or two steps, a
\* literal.  A step is a key, a nested path or a literal.
Steps ==
    {LookupKeyExpr(k) : k \in Keys}
    \cup {LookupExpr(<<LookupKeyExpr("a")>>), LiteralExpr}
Exprs ==
    {LookupKeyExpr(k) : k \in Keys}
    \cup {LookupExpr(<<e>>) : e \in Steps}
    \cup {LookupExpr(<<e, f>>) : e \in Steps, f \in Steps}
    \cup {LiteralExpr}

\* The right-hand sides the host compares the object with: fresh values,
\* containers of one fresh value, and a copy of the object.
Elems == {NilCtx, CtxOfString("s"), CtxOfInt(1), CtxOfFloat(1)}
Others ==
    Fresh
    \cup {CtxOfHash({<<"a", v>>}) : v \in Elems}
    \cup {CtxOfArray(<<v>>) : v \in Elems}
    \cup {CopyCtor(ctx)}

\* The reads the host makes between two operations on the object.
ReadExprs ==
    {LookupKeyExpr("a"), LiteralExpr,
     LookupExpr(<<LookupKeyExpr("a"), LookupKeyExpr("b")>>),
     LookupExpr(<<LookupKeyExpr("a"), LiteralExpr>>)}
ReadOthers ==
    {NilCtx, CtxOfFloat(1), CtxOfHash({<<"a", NilCtx>>}), CopyCtor(ctx)}

Fits(c) == Size(c) <= MaxSize

\* The object is default-constructed; nothing is being parsed or evaluated.
CtxInit ==
    /\ ctx = NilCtx
    /\ out = NoOut
    /\ tokens = <<>> /\ pos = 0 /\ stack = <<>> /\ pc = "idle"
    /\ fault = [kind |-> "none"] /\ calls = <<>> /\ returned = <<>>
    /\ chainSrc = <<>> /\ cond = <<>> /\ condCtx = NilCtx /\ condOut = <<>>

Construct(v) ==
    /\ out = NoOut
    /\ UNCHANGED <<parseVars, condVars>>
    /\ ctx' = v
    /\ out' = NoOut

CopyConstruct ==
    /\ out = NoOut
    /\ UNCHANGED <<parseVars, condVars>>
    /\ ctx' = CopyCtor(ctx)
    /\ out' = NoOut

Assign(v) ==
    /\ out = NoOut
    /\ UNCHANGED <<parseVars, condVars>>
    /\ ctx' = OpAssign(ctx, v)
    /\ out' = NoOut

InsertOp(k, v) ==
    /\ out = NoOut
    /\ UNCHANGED <<parseVars, condVars>>
    /\ Fits(insert(ctx, k, v))
    /\ ctx' = insert(ctx, k, v)
    /\ out' = NoOut

PushBackOp(v) ==
    /\ out = NoOut
    /\ UNCHANGED <<parseVars, condVars>>
    /\ Fits(push_back(ctx, v))
    /\ ctx' = push_back(ctx, v)
    /\ out' = NoOut

\* The const methods: the object is unchanged, out holds the call and its
\* result until the host has consumed it.
ToStringOp ==
    /\ out = NoOut
    /\ out' = [op |-> "toString", result |-> toString(ctx)]
    /\ UNCHANGED <<ctx, parseVars, condVars>>

IndexOp(k) ==
    /\ out = NoOut
    /\ out' = [op |-> "index", key |-> k, result |-> Index(ctx, k)]
    /\ UNCHANGED <<ctx, parseVars, condVars>>

EvaluateOp(e) ==
    /\ out = NoOut
    /\ out' = [op |-> "evaluate", expr |-> e, result |-> Evaluate(ctx, e)]
    /\ UNCHANGED <<ctx, parseVars, condVars>>

EqualsOp(v) ==
    /\ out = NoOut
    /\ out' = [op |-> "equals", other |-> v, result |-> CtxEq(ctx, v)]
    /\ UNCHANGED <<ctx, parseVars, condVars>>

Consume ==
    /\ out # NoOut
    /\ out' = NoOut
    /\ UNCHANGED <<ctx, parseVars, condVars>>

CtxNext ==
    \/ \E v \in Fresh : Construct(v)
    \/ CopyConstruct
    \/ \E v \in Operands : Assign(v)
    \/ \E k \in Keys, v \in Operands : InsertOp(k, v)
    \/ \E v \in Operands : PushBackOp(v)
    \/ ToStringOp
    \/ \E k \in Keys : IndexOp(k)
    \/ \E e \in ReadExprs : EvaluateOp(e)
    \/ \E v \in ReadOthers : EqualsOp(v)
    \/ Consume

SpecCtx == CtxInit /\ [][CtxNext]_vars

(***************************************************************************)
(* Claims about Context.  A read leaves the object as it is, so the        *)
(* objects of the states between reads (out = NoOut) are all the objects   *)
(* there are; the claims about every Context are stated on those states.   *)
(***************************************************************************)
\* A lookup-shaped expression: a key, or a path whose steps are keys and
\* nested paths.
RECURSIVE LookupShaped(_)
LookupShaped(e) ==
    \/ e.type = "LookupKey"
    \/ /\ e.type = "Lookup"
       /\ \A i \in 1..Len(e.lookups) : LookupShaped(e.lookups[i])

\* The keys of a key or of a path of keys, in order.
FlatPath(e) ==
    \/ e.type = "LookupKey"
    \/ /\ e.type = "Lookup"
       /\ \A i \in 1..Len(e.lookups) : e.lookups[i].type = "LookupKey"
PathKeys(e) ==
    IF e.type = "LookupKey" THEN <<e.key>>
    ELSE [i \in 1..Len(e.lookups) |-> e.lookups[i].key]

\* Some step of the key path misses: it is applied to a value that is not a
\* Hash, or to a Hash that lacks the key.
RECURSIVE Misses(_, _, _)
Misses(c, ks, i) ==
    /\ i <= Len(ks)
    /\ \/ c.type # "Hash"
       \/ ks[i] \notin HashKeys(c.hash)
       \/ Misses(HashValue(c.hash, ks[i]), ks, i + 1)

\* C2: evaluate on a Lookup or LookupKey expression raises no error, and the
\* result is Nil as soon as a step of the path misses (absent key, or a step
\* applied to a value that is not a container), for every Context the
\* operations produce and every expression.
C2_EvaluateNeverFaults ==
    out = NoOut => \A e \in Exprs :
        LookupShaped(e) =>
            LET r == Evaluate(ctx, e) IN
            /\ ~r.fault
            /\ (FlatPath(e) /\ Misses(ctx, PathKeys(e), 1)) => isNil(r.value)

\* The path a.b was evaluated on a Hash whose a is a String: the second step
\* was applied to a value that is not a container, and the result is Nil.
C2_Witness ==
    /\ out.op = "evaluate"
    /\ out.expr = LookupExpr(<<LookupKeyExpr("a"), LookupKeyExpr("b")>>)
    /\ ctx.type = "Hash"
    /\ HashFind(ctx.hash, "a") # {}
    /\ HashValue(ctx.hash, "a").type = "String"
    /\ isNil(out.result.value)
    /\ ~out.result.fault

\* C3 (as claimed): toString of a Nil Context is the empty string.
C3_NilRendersEmpty ==
    (out.op = "toString" /\ isNil(ctx)) => out.result = ""

\* The value of a Context: its variant and the payload of that variant, the
\* elements of a container by their values.
RECURSIVE Abs(_)
Abs(c) ==
    CASE c.type = "Hash" -> <<c.type, {<<p[1], Abs(p[2])>> : p \in c.hash}>>
      [] c.type = "Array" -> <<c.type, [i \in 1..Len(c.array) |-> Abs(c.array[i])]>>
      [] c.type = "String" -> <<c.type, c.string>>
      [] c.type \in {"NumberInt", "NumberFloat"} -> <<c.type, c.num>>
      [] OTHER -> <<c.type, 0>>

\* C8: x == y is true exactly when x and y have the same variant and equal
\* payloads; Contexts of different variants are unequal, a NumberInt and a
\* NumberFloat of the same value included; and == is symmetric.
C8_EqualityWithinVariant ==
    out = NoOut => \A y \in Others :
        /\ CtxEq(ctx, y) <=> (ctx.type = y.type /\ Abs(ctx) = Abs(y))
        /\ (ctx.type # y.type) => ~CtxEq(ctx, y)
        /\ CtxEq(ctx, y) = CtxEq(y, ctx)

\* A Hash whose stored value was overwritten from a String to Nil was
\* compared with a fresh Hash holding Nil under the same key, and is equal.
C8_Witness ==
    /\ out.op = "equals"
    /\ out.result
    /\ ctx.type = "Hash"
    /\ ctx # out.other
    /\ \E p \in ctx.hash : p[2].type = "Nil" /\ p[2].string = "s"

\* A NumberInt was compared with the NumberFloat of the same value.
C8_WitnessCrossNumber ==
    /\ out.op = "equals"
    /\ ~out.result
    /\ ctx.type = "NumberInt" /\ out.other.type = "NumberFloat"
    /\ ctx.num = out.other.num

\* C10 (as claimed): operator[] and evaluate of the key return equal values,
\* for every key, on every Context the operations produce.
C10_KeyReadsAgree ==
    \A k \in Keys :
        /\ ~Evaluate(ctx, LookupKeyExpr(k)).fault
        /\ CtxEq(Index(ctx, k), Evaluate(ctx, LookupKeyExpr(k)).value)

(***************************************************************************)
(* Liquid::BlockBody::parse.  A Component is a Text, an Object or a Tag;   *)
(* a Tag's name is the Id that Parser::consume reads first in its markup.  *)
(***************************************************************************)
\* QStringRef(): the null reference passed at the end of input.  An Id is
\* never empty, so the empty string stands for it.
NullRef == ""
\* Markup whose first token is not an Id: Parser::consume(Id) faults.
BadMarkup == "%"

TextComp == [type |-> "Text", name |-> ""]
ObjectComp == [type |-> "Object", name |-> ""]
TagComp(n) == [type |-> "Tag", name |-> n]

\* The names BlockBody::parse compares tagName with.
SimpleTags == {"assign", "increment", "decrement"}
BlockTags == {"comment", "capture"}
Dispatched == SimpleTags \cup BlockTags
\* The names the specification lists as recognized at the top level.
ListedTags == {"assign", "comment", "capture", "increment", "decrement", "if"}

TagNames == ListedTags \cup {"endcomment", "endcapture", "endif", "bogus", BadMarkup}
Components == {TextComp, ObjectComp} \cup {TagComp(n) : n \in TagNames}

RECURSIVE SeqsUpTo(_, _)
SeqsUpTo(S, n) ==
    IF n = 0 THEN {<<>>}
    ELSE LET shorter == SeqsUpTo(S, n - 1) IN
         shorter \cup {Append(q, e) : q \in {r \in shorter : Len(r) = n - 1}, e \in S}

NoFault == [kind |-> "none"]
UnknownTagFault(n) == [kind |-> "UnknownTag", name |-> n]
UnterminatedFault(t) == [kind |-> "UnterminatedBlock", name |-> t]
SyntaxFault == [kind |-> "Syntax", name |-> ""]

\* defaultUnknownTagHandler: the fault it throws, or NoFault when it returns.
DefaultHandlerThrowsAlways(tagName) == UnknownTagFault(tagName)
defaultUnknownTagHandler(tagName) ==
    IF tagName # NullRef THEN UnknownTagFault(tagName) ELSE NoFault

\* The terminator a block tag's own handler recognizes.
Terminator(t) == IF t = "comment" THEN "endcomment" ELSE "endcapture"

\* The unknown-tag handler a block tag passes to the parse of its body: its
\* terminator stops the body, the end of input is an unterminated block, and
\* any other name is forwarded outward, to the default handler.
blockUnknownTagHandler(t, tagName) ==
    IF tagName = NullRef THEN UnterminatedFault(t)
    ELSE IF tagName = Terminator(t) THEN NoFault
    ELSE defaultUnknownTagHandler(tagName)

\* The handler that is active in a body: the default one at the top level.
unknownTagHandler(t, tagName) ==
    IF t = "top" THEN defaultUnknownTagHandler(tagName)
    ELSE blockUnknownTagHandler(t, tagName)

Node(kind, at) == [kind |-> kind, at |-> at]
\* A node a BlockBody holds from an earlier parse.
StaleNode == Node("Text", 0)

NewBody(t, open, nodes) ==
    [tag |-> t, open |-> open, nodes |-> nodes, started |-> FALSE,
     start |-> 0, pulled |-> <<>>, hcalls |-> 0]

Top == stack[Len(stack)]
SetTop(f) == [stack EXCEPT ![Len(stack)] = f]
Running == pc = "run" /\ stack # <<>>
Comp == tokens[pos + 1]

ParseInit ==
    /\ tokens \in SeqsUpTo(Components, MaxComps)
    /\ pos = 0
    /\ \E old \in {<<>>, <<StaleNode>>} : stack = <<NewBody("top", 0, old)>>
    /\ pc = "run"
    /\ fault = NoFault
    /\ calls = <<>>
    /\ returned = <<>>
    /\ ctx = NilCtx /\ out = NoOut
    /\ chainSrc = <<>> /\ cond = <<>> /\ condCtx = NilCtx /\ condOut = <<>>

\* The exception leaves parse: the bodies of the block tags under
\* construction are destroyed, the caller's BlockBody is left as it was.
Throw(f, root) ==
    /\ fault' = f
    /\ pc' = "faulted"
    /\ stack' = <<root>>
    /\ returned' = returned

\* nodes_.clear() on entry.
ParseBeginNoClear ==
    /\ Running /\ ~Top.started
    /\ stack' = SetTop([Top EXCEPT !.started = TRUE, !.start = pos])
    /\ UNCHANGED <<tokens, pos, pc, fault, calls, returned, ctxVars, condVars>>
ParseBegin ==
    /\ Running /\ ~Top.started
    /\ stack' = SetTop([Top EXCEPT !.nodes = <<>>, !.started = TRUE, !.start = pos])
    /\ UNCHANGED <<tokens, pos, pc, fault, calls, returned, ctxVars, condVars>>

Scanning == Running /\ Top.started /\ pos < Len(tokens)

\* The frame after tokenizer.next() returned the component at pos + 1.
Pulled(f) == [f EXCEPT !.pulled = Append(@, pos + 1)]

EmitText ==
    /\ Scanning /\ Comp.type = "Text"
    /\ pos' = pos + 1
    /\ stack' = SetTop([Pulled(Top) EXCEPT !.nodes = Append(@, Node("Text", pos + 1))])
    /\ UNCHANGED <<tokens, pc, fault, calls, returned, ctxVars, condVars>>

EmitObject ==
    /\ Scanning /\ Comp.type = "Object"
    /\ pos' = pos + 1
    /\ stack' = SetTop([Pulled(Top) EXCEPT !.nodes = Append(@, Node("Object", pos + 1))])
    /\ UNCHANGED <<tokens, pc, fault, calls, returned, ctxVars, condVars>>

\* Parser::consume(Token::Type::Id) on markup that does not start with an Id.
TagSyntaxError ==
    /\ Scanning /\ Comp.type = "Tag" /\ Comp.name = BadMarkup
    /\ pos' = pos + 1
    /\ Throw(SyntaxFault, IF Len(stack) = 1 THEN Pulled(Top) ELSE stack[1])
    /\ UNCHANGED <<tokens, calls, ctxVars, condVars>>

\* assign, increment, decrement: the tag is constructed and pushed.
DispatchTag ==
    /\ Scanning /\ Comp.type = "Tag" /\ Comp.name \in SimpleTags
    /\ pos' = pos + 1
    /\ stack' = SetTop([Pulled(Top) EXCEPT !.nodes = Append(@, Node("Tag", pos + 1))])
    /\ UNCHANGED <<tokens, pc, fault, calls, returned, ctxVars, condVars>>

\* comment, capture: the tag is constructed and tag->parse(tokenizer) parses
\* its body on the same Tokenizer; the tag is pushed once that returns.
DispatchBlock ==
    /\ Scanning /\ Comp.type = "Tag" /\ Comp.name \in BlockTags
    /\ pos' = pos + 1
    /\ stack' = Append(SetTop(Pulled(Top)), NewBody(Comp.name, pos + 1, <<>>))
    /\ UNCHANGED <<tokens, pc, fault, calls, returned, ctxVars, condVars>>

\* What parse leaves when the handler has returned: the record of the call,
\* and for a block tag's body the tag pushed on the enclosing body.
Return(f, stop) ==
    /\ returned' = Append(returned,
           [tag |-> f.tag, open |-> f.open, nodes |-> f.nodes, pulled |-> f.pulled,
            hcalls |-> f.hcalls, start |-> f.start, end |-> pos', stop |-> stop])
    /\ IF Len(stack) = 1
       THEN /\ stack' = <<f>>
            /\ pc' = "done"
       ELSE /\ stack' = [i \in 1..(Len(stack) - 1) |->
                            IF i = Len(stack) - 1
                            THEN [stack[i] EXCEPT !.nodes = Append(@, Node("Tag", f.open))]
                            ELSE stack[i]]
            /\ pc' = "run"
    /\ fault' = NoFault

\* The handler is called with tagName; parse returns if it returns.
CallHandler(f, tagName) ==
    LET thrown == unknownTagHandler(f.tag, tagName)
        g == [f EXCEPT !.hcalls = @ + 1]
    IN  /\ calls' = Append(calls, [handler |-> f.tag, name |-> tagName,
                                    thrown |-> thrown, depth |-> Len(stack)])
        /\ IF thrown # NoFault
           THEN Throw(thrown, IF Len(stack) = 1 THEN g ELSE stack[1])
           ELSE Return(g, tagName)

\* Any other tag name: unknownTagHandler(tagName, tokenizer); return.
UnknownTag ==
    /\ Scanning /\ Comp.type = "Tag" /\ Comp.name \notin Dispatched \cup {BadMarkup}
    /\ pos' = pos + 1
    /\ CallHandler(Pulled(Top), Comp.name)
    /\ UNCHANGED <<tokens, ctxVars, condVars>>

\* tokenizer.next() returned nullptr: unknownTagHandler(QStringRef(), tokenizer).
EndOfInputNoCall ==
    /\ Running /\ Top.started /\ pos = Len(tokens)
    /\ pos' = pos
    /\ calls' = calls
    /\ Return(Top, NullRef)
    /\ UNCHANGED <<tokens, ctxVars, condVars>>
EndOfInput ==
    /\ Running /\ Top.started /\ pos = Len(tokens)
    /\ pos' = pos
    /\ CallHandler(Top, NullRef)
    /\ UNCHANGED <<tokens, ctxVars, condVars>>

ParseNext ==
    \/ ParseBegin
    \/ EmitText
    \/ EmitObject
    \/ TagSyntaxError
    \/ DispatchTag
    \/ DispatchBlock
    \/ UnknownTag
    \/ EndOfInput

SpecParse == ParseInit /\ [][ParseNext]_vars

(***************************************************************************)
(* Claims about BlockBody::parse.                                          *)
(***************************************************************************)
Last(q) == q[Len(q)]
Range(q) == {q[i] : i \in 1..Len(q)}

\* C4 (as claimed): no tag named assign, comment, capture, increment,
\* decrement or if reaches the unknown-tag handler or faults as unknown.
C4_ListedTagsDispatched ==
    /\ \A i \in 1..Len(calls) : calls[i].name \notin ListedTags
    /\ fault.kind = "UnknownTag" => fault.name \notin ListedTags

\* C5: the default handler throws exactly when it is given a tag name, the
\* error names that tag and aborts the parse; given the null name at the end
\* of input it returns and the top-level parse ends normally.
C5_DefaultHandler ==
    \A i \in 1..Len(calls) :
        calls[i].handler = "top" =>
            /\ (calls[i].thrown # NoFault) <=> (calls[i].name # NullRef)
            /\ calls[i].name # NullRef =>
                   /\ calls[i].thrown = UnknownTagFault(calls[i].name)
                   /\ pc = "faulted" /\ fault = calls[i].thrown
            /\ calls[i].name = NullRef => (pc = "done" /\ fault = NoFault)

\* A stray endif after a node at the top level faulted, naming endif.
C5_Witness ==
    /\ pc = "faulted"
    /\ calls # <<>> /\ Last(calls).handler = "top"
    /\ fault = UnknownTagFault("endif")
    /\ pos > 1

C7_NoNodesAfterFault ==
    (pc = "faulted" /\ fault.kind = "UnknownTag") => stack[1].nodes = <<>>

\* The component at i makes a node: a Text, an Object or a dispatched Tag.
Recognized(i) ==
    \/ tokens[i].type \in {"Text", "Object"}
    \/ tokens[i].type = "Tag" /\ tokens[i].name \in Dispatched
NodeOf(i) == Node(tokens[i].type, i)
NodesOf(q) ==
    LET kept == SelectSeq(q, Recognized) IN
    [j \in 1..Len(kept) |-> NodeOf(kept[j])]

\* C9: a parse that returned holds one node per Text, Object and dispatched
\* Tag it pulled, in source order and nothing else; it called the handler
\* once; it pulled nothing after the tag that stopped it; and the components
\* from its start to its end are those it pulled and those of the blocks it
\* opened.
C9_ReturnedBody ==
    \A n \in 1..Len(returned) :
        LET r == returned[n] IN
        /\ r.nodes = NodesOf(r.pulled)
        /\ r.hcalls = 1
        /\ \A i \in 1..Len(r.pulled) :
               /\ r.start < r.pulled[i] /\ r.pulled[i] <= r.end
               /\ i > 1 => r.pulled[i - 1] < r.pulled[i]
               /\ i < Len(r.pulled) => Recognized(r.pulled[i])
        /\ r.pulled # <<>> => r.pulled[1] = r.start + 1
        /\ IF r.stop = NullRef
           THEN /\ r.end = Len(tokens)
                /\ \A j \in Range(r.pulled) : Recognized(j)
           ELSE /\ r.pulled # <<>> /\ Last(r.pulled) = r.end
                /\ tokens[r.end] = TagComp(r.stop)
                /\ ~Recognized(r.end)
        /\ \A i \in (r.start + 1)..r.end :
               \/ i \in Range(r.pulled)
               \/ \E m \in 1..Len(returned) :
                      /\ returned[m].open \in Range(r.pulled)
                      /\ returned[m].open < i /\ i <= returned[m].end

\* A top-level parse over a BlockBody holding an old node returned with a
\* Text node and the node of a block tag that was closed.
C9_Witness ==
    /\ pc = "done"
    /\ \E n \in 1..Len(returned) :
           /\ returned[n].tag = "top"
           /\ Len(returned[n].nodes) = 2
           /\ returned[n].nodes[1].kind = "Text"
           /\ returned[n].nodes[2].kind = "Tag"
           /\ tokens[returned[n].nodes[2].at].name \in BlockTags

(***************************************************************************)
(* Liquid::Condition.  A node holds a comparison (here an expression with  *)
(* Operator::None, true when its value is truthy), a logical operator and  *)
(* the rest of the chain as its child (<<>>: no child).                    *)
(***************************************************************************)
\* Condition(const Expression& a)
Condition(a) == [a |-> a, op |-> "None", logicalOp |-> "None", child |-> <<>>]

setLogicalConditionDropsOp(c, op, child) == [c EXCEPT !.child = <<child>>]
setLogicalCondition(c, op, child) == [c EXCEPT !.logicalOp = op, !.child = <<child>>]

\* The name of the i-th operand of a chain.
OperandName(i) == <<"a", "b", "c", "d", "e">>[i]
OperandExpr(i) == LookupExpr(<<LookupKeyExpr(OperandName(i))>>)

\* The parser's chain for the comparisons i.. of a source with the logical
\* operators ops: the node of comparison i, with the rest as its child.
RECURSIVE parseLogicalCondition(_, _)
parseLogicalCondition(ops, i) ==
    IF i > Len(ops) THEN Condition(OperandExpr(i))
    ELSE setLogicalCondition(Condition(OperandExpr(i)), ops[i],
                             parseLogicalCondition(ops, i + 1))

\* Condition::evaluate: this node's comparison, combined with the child's
\* evaluation by this node's logical operator.
RECURSIVE CondEvaluate(_, _)
CondEvaluate(c, context) ==
    LET result == isTruthy(Evaluate(context, c.a).value) IN
    CASE c.logicalOp = "And" -> result /\ CondEvaluate(c.child[1], context)
      [] c.logicalOp = "Or" -> result \/ CondEvaluate(c.child[1], context)
      [] OTHER -> result

\* The values an operand is bound to: two truthy, two falsy.
OperandValues == {CtxOfBool(TRUE), CtxOfBool(FALSE), NilCtx, CtxOfInt(0)}
ChainLens == 1..MaxChain

\* A condition of n comparisons is written, with a Context binding each
\* operand; nothing is parsed yet.
CondInit ==
    /\ \E n \in ChainLens :
          /\ chainSrc \in [1..(n - 1) -> {"And", "Or"}]
          /\ \E vals \in [1..n -> OperandValues] :
                 condCtx = CtxOfHash({<<OperandName(i), vals[i]>> : i \in 1..n})
    /\ cond = <<>>
    /\ condOut = <<>>
    /\ ctx = NilCtx /\ out = NoOut
    /\ tokens = <<>> /\ pos = 0 /\ stack = <<>> /\ pc = "idle"
    /\ fault = [kind |-> "none"] /\ calls = <<>> /\ returned = <<>>

ParseCondition ==
    /\ cond = <<>>
    /\ cond' = <<parseLogicalCondition(chainSrc, 1)>>
    /\ UNCHANGED <<chainSrc, condCtx, condOut, ctxVars, parseVars>>

EvaluateCondition ==
    /\ cond # <<>> /\ condOut = <<>>
    /\ condOut' = <<CondEvaluate(cond[1], condCtx)>>
    /\ UNCHANGED <<chainSrc, cond, condCtx, ctxVars, parseVars>>

CondNext ==
    \/ ParseCondition
    \/ EvaluateCondition

SpecCond == CondInit /\ [][CondNext]_vars

(***************************************************************************)
(* Claims about Condition.                                                 *)
(***************************************************************************)
\* The truth value of the i-th comparison as written.
Truth(i) == isTruthy(HashValue(condCtx.hash, OperandName(i)))
Combine(op, x, y) == IF op = "And" THEN x /\ y ELSE x \/ y

\* ((t1 op1 t2) op2 t3) ...: the first n comparisons combined left to right.
RECURSIVE LeftToRight(_)
LeftToRight(n) ==
    IF n = 1 THEN Truth(1)
    ELSE Combine(chainSrc[n - 1], LeftToRight(n - 1), Truth(n))

\* t_i op_i (t_i+1 op_i+1 (...)): the comparisons from i on, each combined
\* with all that follows it.
RECURSIVE RightToLeft(_)
RightToLeft(i) ==
    IF i > Len(chainSrc) THEN Truth(i)
    ELSE Combine(chainSrc[i], Truth(i), RightToLeft(i + 1))

====
